---- MODULE Spec2Model ----
(***************************************************************************)
(* Model of the OTLP/HTTP metrics client                                   *)
(* (opentelemetry-otlp/src/exporter/http/metrics.rs):                      *)
(*   impl MetricsClient for OtlpHttpClient { export, shutdown }            *)
(*   build_body                                                            *)
(*                                                                         *)
(* Text (Rust str / String) is a sequence of Unicode scalar values, bytes  *)
(* (Vec<u8>, Bytes) are sequences of 0..255.  Each call of export or       *)
(* shutdown is one process; its steps are the points at which another      *)
(* thread can observe or change the shared state (the Mutex, the Option    *)
(* inside it, the strong count of the Arc).                                *)
(***************************************************************************)
EXTENDS Integers, Sequences, FiniteSets, TLC

\* ------------------------------------------------------------------------
\* Bounds
\* ------------------------------------------------------------------------

\* number of export/shutdown calls made on one exporter
MaxCalls == 3

\* number of calls in the specification of the response handling
MaxHttpCalls == 2

\* ------------------------------------------------------------------------
\* Texts of the program, as sequences of scalar values
\* ------------------------------------------------------------------------

\* "exporter is already shut down"
AlreadyShutDownText ==
    <<101, 120, 112, 111, 114, 116, 101, 114, 32, 105, 115, 32, 97, 108, 114,
      101, 97, 100, 121, 32, 115, 104, 117, 116, 32, 100, 111, 119, 110>>

\* "No http protocol configured. Enable one via `http-proto`"
NoProtocolText ==
    <<78, 111, 32, 104, 116, 116, 112, 32, 112, 114, 111, 116, 111, 99, 111,
      108, 32, 99, 111, 110, 102, 105, 103, 117, 114, 101, 100, 46, 32, 69,
      110, 97, 98, 108, 101, 32, 111, 110, 101, 32, 118, 105, 97, 32, 96,
      104, 116, 116, 112, 45, 112, 114, 111, 116, 111, 96>>

\* "poisoned lock: another task failed inside" (Display of PoisonError,
\* which .map_err(Into::into) / `?` turn into MetricsError::Other)
PoisonText ==
    <<112, 111, 105, 115, 111, 110, 101, 100, 32, 108, 111, 99, 107, 58, 32,
      97, 110, 111, 116, 104, 101, 114, 32, 116, 97, 115, 107, 32, 102, 97,
      105, 108, 101, 100, 32, 105, 110, 115, 105, 100, 101>>

\* "request failed with status "
StatusPrefixText ==
    <<114, 101, 113, 117, 101, 115, 116, 32, 102, 97, 105, 108, 101, 100, 32,
      119, 105, 116, 104, 32, 115, 116, 97, 116, 117, 115, 32>>

\* " (Body: "
BodyPrefixText ==
    <<32, 40, 66, 111, 100, 121, 58, 32>>

\* ")"
BodySuffixText ==
    <<41>>

\* "response body cannot be decoded"
UndecodableText ==
    <<114, 101, 115, 112, 111, 110, 115, 101, 32, 98, 111, 100, 121, 32, 99,
      97, 110, 110, 111, 116, 32, 98, 101, 32, 100, 101, 99, 111, 100, 101,
      100>>

\* "application/x-protobuf"
ProtobufContentType == "application/x-protobuf"

\* http::header::CONTENT_TYPE (header names are lower case in a HeaderName)
CONTENT_TYPE == "content-type"

\* http::Method::POST
POST == "POST"

\* ------------------------------------------------------------------------
\* Pure functions
\* ------------------------------------------------------------------------

\* decimal digits of n as text (Display of the u16 inside a StatusCode)
RECURSIVE Digits(_)
Digits(n) ==
    IF n < 10 THEN <<48 + n>>
    ELSE Digits(n \div 10) \o <<48 + (n % 10)>>

\* http::StatusCode::canonical_reason, for the codes the transport of this
\* model answers with; None is the empty text
CanonicalReason(status) ==
    CASE status = 200 -> <<79, 75>>
      [] status = 300 -> <<77, 117, 108, 116, 105, 112, 108, 101, 32, 67,
                           104, 111, 105, 99, 101, 115>>
      [] status = 400 -> <<66, 97, 100, 32, 82, 101, 113, 117, 101, 115, 116>>
      [] status = 500 -> <<73, 110, 116, 101, 114, 110, 97, 108, 32, 83, 101,
                           114, 118, 101, 114, 32, 69, 114, 114, 111, 114>>
      [] OTHER -> <<>>

\* Display of http::StatusCode: "<code> <canonical reason>", with
\* "<unknown status code>" when there is no canonical reason
StatusDisplay(status) ==
    Digits(status) \o <<32>> \o
    (IF CanonicalReason(status) = <<>>
     THEN <<60, 117, 110, 107, 110, 111, 119, 110, 32, 115, 116, 97, 116,
            117, 115, 32, 99, 111, 100, 101, 62>>
     ELSE CanonicalReason(status))

\* an is_success that takes 300 for a success
IsSuccessUpTo300(status) == 200 <= status /\ status <= 300

\* StatusCode::is_success
IsSuccess(status) == 200 <= status /\ status < 300

\* a validation that takes any continuation bytes after a three-byte lead,
\* so that encoded surrogates pass
Utf8WidthLax(bytes) ==
    LET n == Len(bytes)
        b0 == bytes[1]
        c(i) == i <= n /\ 128 <= bytes[i] /\ bytes[i] <= 191
    IN  IF b0 < 128 THEN 1
        ELSE IF 194 <= b0 /\ b0 <= 223 THEN (IF c(2) THEN 2 ELSE 0)
        ELSE IF 224 <= b0 /\ b0 <= 239 THEN (IF c(2) /\ c(3) THEN 3 ELSE 0)
        ELSE IF 240 <= b0 /\ b0 <= 244
             THEN (IF c(2) /\ c(3) /\ c(4) THEN 4 ELSE 0)
        ELSE 0

IsCont(b) == 128 <= b /\ b <= 191

\* length of the well-formed UTF-8 sequence at the head of bytes, 0 if the
\* head is not well formed (the table std::str::from_utf8 validates against)
Utf8Width(bytes) ==
    LET n  == Len(bytes)
        b0 == bytes[1]
        c(i) == i <= n /\ IsCont(bytes[i])
        r(i, lo, hi) == i <= n /\ lo <= bytes[i] /\ bytes[i] <= hi
    IN  IF b0 < 128 THEN 1
        ELSE IF 194 <= b0 /\ b0 <= 223 THEN (IF c(2) THEN 2 ELSE 0)
        ELSE IF b0 = 224 THEN (IF r(2, 160, 191) /\ c(3) THEN 3 ELSE 0)
        ELSE IF (225 <= b0 /\ b0 <= 236) \/ b0 = 238 \/ b0 = 239
             THEN (IF c(2) /\ c(3) THEN 3 ELSE 0)
        ELSE IF b0 = 237 THEN (IF r(2, 128, 159) /\ c(3) THEN 3 ELSE 0)
        ELSE IF b0 = 240 THEN (IF r(2, 144, 191) /\ c(3) /\ c(4) THEN 4 ELSE 0)
        ELSE IF 241 <= b0 /\ b0 <= 243
             THEN (IF c(2) /\ c(3) /\ c(4) THEN 4 ELSE 0)
        ELSE IF b0 = 244 THEN (IF r(2, 128, 143) /\ c(3) /\ c(4) THEN 4 ELSE 0)
        ELSE 0

\* the scalar value encoded by the first w bytes
Utf8Scalar(bytes, w) ==
    CASE w = 1 -> bytes[1]
      [] w = 2 -> (bytes[1] - 192) * 64 + (bytes[2] - 128)
      [] w = 3 -> (bytes[1] - 224) * 4096 + (bytes[2] - 128) * 64
                  + (bytes[3] - 128)
      [] w = 4 -> (bytes[1] - 240) * 262144 + (bytes[2] - 128) * 4096
                  + (bytes[3] - 128) * 64 + (bytes[4] - 128)

\* std::str::from_utf8: [ok |-> TRUE, text |-> the str] or [ok |-> FALSE]
RECURSIVE FromUtf8(_)
FromUtf8(bytes) ==
    IF bytes = <<>> THEN [ok |-> TRUE, text |-> <<>>]
    ELSE LET w == Utf8Width(bytes)
         IN  IF w = 0 THEN [ok |-> FALSE, text |-> <<>>]
             ELSE LET rest == FromUtf8(SubSeq(bytes, w + 1, Len(bytes)))
                  IN  IF rest.ok
                      THEN [ok |-> TRUE,
                            text |-> <<Utf8Scalar(bytes, w)>> \o rest.text]
                      ELSE [ok |-> FALSE, text |-> <<>>]

\* a body message that gives up on the body
BodyMsgPlaceholder(body) == UndecodableText

\* lines 43-44: from_utf8(body).unwrap_or("response body cannot be decoded")
BodyMsg(body) ==
    LET d == FromUtf8(body)
    IN  IF d.ok THEN d.text ELSE UndecodableText

\* lines 46-50: format!("request failed with status {} (Body: {})", ..)
RejectionText(status, body) ==
    StatusPrefixText \o StatusDisplay(status) \o BodyPrefixText
    \o BodyMsg(body) \o BodySuffixText

\* Result<()> values: Ok(()), MetricsError::Other(msg) and
\* MetricsError::ExportErr(Box<Error::RequestFailed(msg)>)
NoResult == [variant |-> "none", inner |-> "", msg |-> <<>>]
OkUnit == [variant |-> "Ok", inner |-> "", msg |-> <<>>]
ErrOther(msg) == [variant |-> "Other", inner |-> "", msg |-> msg]
ErrExport(msg) == [variant |-> "ExportErr", inner |-> "RequestFailed", msg |-> msg]

\* what HttpClient::send can come back with
SendErr(text) == [ok |-> FALSE, status |-> 0, body |-> <<>>, err |-> text]
SendOk(status, body) == [ok |-> TRUE, status |-> status, body |-> body, err |-> <<>>]
NoResponse == [ok |-> FALSE, status |-> 0, body |-> <<>>, err |-> <<>>]

\* lines 36-55: the result of export once send has come back
ClassifyResponse(out) ==
    IF ~out.ok THEN ErrExport(out.err)
    ELSE IF ~IsSuccess(out.status)
         THEN ErrExport(RejectionText(out.status, out.body))
         ELSE OkUnit

\* prost encoding of the request built from the batch: one length-delimited
\* field (tag 0x0A) per batch.  Encoding into a Vec<u8> cannot run out of
\* capacity, so the Err of req.encode (line 72) is never produced.
Encode(metrics) == <<10, Len(metrics)>> \o metrics

\* a build_body that falls back to protobuf when no format is configured
build_bodyDefault(metrics, proto) ==
    [ok |-> TRUE, body |-> Encode(metrics),
     content_type |-> ProtobufContentType, err |-> NoResult]

\* lines 65-82: build_body under feature http-proto (proto = TRUE) and
\* without it
build_body(metrics, proto) ==
    IF proto
    THEN [ok |-> TRUE, body |-> Encode(metrics),
          content_type |-> ProtobufContentType, err |-> NoResult]
    ELSE [ok |-> FALSE, body |-> <<>>, content_type |-> "",
          err |-> ErrOther(NoProtocolText)]

NoHeaders == [k \in {} |-> ""]

\* an insert that keeps the value a name already has
HeaderInsertIfAbsent(h, k, v) ==
    [x \in (DOMAIN h) \cup {k} |-> IF x \in DOMAIN h THEN h[x] ELSE v]

\* HeaderMap::insert: the value replaces whatever the name had
HeaderInsert(h, k, v) ==
    [x \in (DOMAIN h) \cup {k} |-> IF x = k THEN v ELSE h[x]]

\* lines 32-34: for (k, v) in &self.headers { insert }
RECURSIVE InsertAll(_, _)
InsertAll(h, custom) ==
    IF DOMAIN custom = {} THEN h
    ELSE LET k == CHOOSE x \in DOMAIN custom : TRUE
         IN  InsertAll(HeaderInsert(h, k, custom[k]),
                       [x \in (DOMAIN custom) \ {k} |-> custom[x]])

NoRequest == [method |-> "", uri |-> "", headers |-> NoHeaders, body |-> <<>>]

\* lines 25-34: the request export sends
BuildRequest(endpoint, content_type, body, custom) ==
    [method |-> POST, uri |-> endpoint,
     headers |-> InsertAll(HeaderInsert(NoHeaders, CONTENT_TYPE, content_type),
                           custom),
     body |-> body]

\* ------------------------------------------------------------------------
\* Inputs
\* ------------------------------------------------------------------------

CallIds == 1 .. MaxCalls

\* batches: the scope metrics as bytes
Batches == {<<>>, <<7>>}

\* response bodies: "Details", U+00E9, and two that are not UTF-8 (a stray
\* 0xFF, an encoded surrogate)
Bodies ==
    {<<68, 101, 116, 97, 105, 108, 115>>, <<195, 169>>,
     <<255>>, <<237, 160, 128>>}

\* "timeout"
TransportErrors == {<<116, 105, 109, 101, 111, 117, 116>>}

\* what send comes back with: an error, or a response with a status on
\* either side of each end of 200..299, or 400, or 500.  The body of a
\* response with a status in 200..299 is never read (line 42), two bodies
\* stand for all.
Outcomes ==
    {SendErr(e) : e \in TransportErrors}
    \cup {SendOk(s, b) : s \in {199, 300, 400, 500}, b \in Bodies}
    \cup {SendOk(s, b) : s \in {200, 299},
                         b \in {<<68, 101, 116, 97, 105, 108, 115>>, <<255>>}}

\* the outcomes of the specification with MaxCalls calls: a transport error,
\* 200 and 400, both with the body "Details"
FewOutcomes ==
    {SendErr(e) : e \in TransportErrors}
    \cup {SendOk(200, <<68, 101, 116, 97, 105, 108, 115>>),
          SendOk(400, <<68, 101, 116, 97, 105, 108, 115>>)}

Endpoints == {"http://collector:4318/v1/metrics"}

\* self.headers: none, X-Test: abc, and X-Test with a Content-Type
HeaderConfigs ==
    {NoHeaders,
     ("x-test" :> "abc"),
     ("x-test" :> "abc") @@ (CONTENT_TYPE :> "application/json")}

\* ------------------------------------------------------------------------
\* State
\* ------------------------------------------------------------------------

VARIABLES
    client,              \* self.client's content: "Some" (Arc) or "None"
    poisoned,            \* the Mutex's poison flag
    guard,               \* the call holding the MutexGuard, 0 if none
    refs,                \* strong count of the Arc<dyn HttpClient>
    collector_endpoint,  \* self.collector_endpoint
    headers,             \* self.headers
    httpProto,           \* feature http-proto
    dropPanics,          \* the injected client's destructor panics
    pc,                  \* where each call is
    op,                  \* "export", "shutdown" or "" (not called yet)
    local,               \* export's local `client` holds a clone
    request,             \* export's local `request`
    nsend,               \* number of client.send(..) calls made by the call
    response,            \* what send came back with
    result,              \* the call's return value
    seen,                \* what the call found under the guard
    afterShutdown,       \* a shutdown had finished when the export locked
    sentAfterClear       \* self.client was None when the call called send

vars ==
    <<client, poisoned, guard, refs, collector_endpoint, headers, httpProto,
      dropPanics, pc, op, local, request, nsend, response, result, seen,
      afterShutdown, sentAfterClear>>

config == <<collector_endpoint, headers, httpProto, dropPanics>>

\* a shutdown call has left its critical section normally
ShutdownCompleted ==
    \E d \in CallIds :
        op[d] = "shutdown" /\ pc[d] = "done" /\ result[d] = OkUnit

Init ==
    /\ client = "Some"
    /\ poisoned = FALSE
    /\ guard = 0
    /\ refs = 1
    /\ collector_endpoint \in Endpoints
    /\ headers \in HeaderConfigs
    /\ httpProto \in BOOLEAN
    /\ dropPanics \in BOOLEAN
    /\ pc = [c \in CallIds |-> "idle"]
    /\ op = [c \in CallIds |-> ""]
    /\ local = [c \in CallIds |-> FALSE]
    /\ request = [c \in CallIds |-> NoRequest]
    /\ nsend = [c \in CallIds |-> 0]
    /\ response = [c \in CallIds |-> NoResponse]
    /\ result = [c \in CallIds |-> NoResult]
    /\ seen = [c \in CallIds |-> "-"]
    /\ afterShutdown = [c \in CallIds |-> FALSE]
    /\ sentAfterClear = [c \in CallIds |-> FALSE]

\* ------------------------------------------------------------------------
\* export
\* ------------------------------------------------------------------------

\* a guard bound for the rest of export
GuardKept(c) == c

\* the guard once the closure of and_then (lines 19-22) has returned: g is
\* moved into the closure and dropped at its end
GuardAfterClosure(c) == 0

\* a return that repeats the failure another call has returned
ReturnSticky(c, res) ==
    LET failed == {d \in CallIds \ {c} : result[d].variant = "ExportErr"}
        left == IF local[c] THEN refs - 1 ELSE refs
    IN  /\ refs' = left
        /\ local' = [local EXCEPT ![c] = FALSE]
        /\ result' = [result EXCEPT ![c] =
               IF failed # {} THEN result[CHOOSE d \in failed : TRUE]
               ELSE res]
        /\ pc' = [pc EXCEPT ![c] = "done"]

\* export returns res: the local `client`, if it holds a clone, is dropped;
\* dropping the last reference runs the transport's destructor, and a panic
\* there replaces the return
Return(c, res) ==
    LET left == IF local[c] THEN refs - 1 ELSE refs
        panics == local[c] /\ left = 0 /\ dropPanics
    IN  /\ refs' = left
        /\ local' = [local EXCEPT ![c] = FALSE]
        /\ result' = [result EXCEPT ![c] = IF panics THEN NoResult ELSE res]
        /\ pc' = [pc EXCEPT ![c] = IF panics THEN "panicked" ELSE "done"]

\* line 17: self.client.lock() gets the mutex
ExportLock(c) ==
    /\ pc[c] = "idle"
    /\ guard = 0
    /\ guard' = c
    /\ pc' = [pc EXCEPT ![c] = "cs"]
    /\ op' = [op EXCEPT ![c] = "export"]
    /\ afterShutdown' = [afterShutdown EXCEPT ![c] = ShutdownCompleted]
    /\ UNCHANGED <<client, poisoned, refs, config, local, request, nsend,
                   response, result, seen, sentAfterClear>>

\* a lock that hands out the guard of a poisoned mutex as if nothing happened
LockIgnoresPoison(flag) == FALSE

\* Mutex::lock (lines 17, 59): Err(PoisonError) exactly when the mutex is
\* poisoned
LockIsErr(flag) == flag

\* a closure without the match on None
CapturesAlways(opt) == TRUE

\* lines 19-21: the closure's match takes the Some arm
Captures(opt) == opt = "Some"

\* a closure that takes the handle out of the Option
OptionAfterTakingClone(opt) == "None"

\* line 20: Arc::clone(client) reads the Option through &*g and leaves it
OptionAfterClone(opt) == opt

\* a closure that borrows the handle without counting the reference
StrongUncounted(n) == n

\* line 20: Arc::clone adds one to the strong count
StrongAfterClone(n) == n + 1

\* lines 17-22: a poisoned lock is an error (the guard inside the PoisonError
\* is dropped by map_err); otherwise the closure clones the Arc or fails
ExportCs(c) ==
    /\ pc[c] = "cs"
    /\ guard = c
    /\ IF LockIsErr(poisoned)
       THEN /\ seen' = [seen EXCEPT ![c] = "Poisoned"]
            /\ guard' = 0
            /\ Return(c, ErrOther(PoisonText))
            /\ UNCHANGED client
       ELSE IF Captures(client)
       THEN /\ seen' = [seen EXCEPT ![c] = "Some"]
            /\ local' = [local EXCEPT ![c] = TRUE]
            /\ refs' = StrongAfterClone(refs)
            /\ client' = OptionAfterClone(client)
            /\ guard' = GuardAfterClosure(c)
            /\ pc' = [pc EXCEPT ![c] = "build"]
            /\ UNCHANGED result
       ELSE /\ seen' = [seen EXCEPT ![c] = "None"]
            /\ guard' = 0
            /\ Return(c, ErrOther(AlreadyShutDownText))
            /\ UNCHANGED client
    /\ UNCHANGED <<poisoned, config, op, request, nsend, response,
                   afterShutdown, sentAfterClear>>

\* lines 24-34: build_body, the request builder and the custom headers
ExportBuild(c) ==
    /\ pc[c] = "build"
    /\ \E metrics \in Batches :
         LET b == build_body(metrics, httpProto)
         IN  IF b.ok
             THEN /\ request' = [request EXCEPT ![c] =
                        BuildRequest(collector_endpoint, b.content_type,
                                     b.body, headers)]
                  /\ pc' = [pc EXCEPT ![c] = "send"]
                  /\ UNCHANGED <<refs, local, result>>
             ELSE /\ Return(c, b.err)
                  /\ UNCHANGED request
    /\ UNCHANGED <<client, poisoned, guard, config, op, nsend, response,
                   seen, afterShutdown, sentAfterClear>>

\* a send that goes through self.client instead of the clone
HandleUsableIfActive(c) == local[c] /\ client = "Some"

\* what send needs: the clone held by the local `client` (line 36), whatever
\* self.client holds by now
HandleUsable(c) == local[c]

\* lines 36-37: client.send(request) is called through the clone
ExportSend(c) ==
    /\ pc[c] = "send"
    /\ HandleUsable(c)
    /\ nsend' = [nsend EXCEPT ![c] = @ + 1]
    /\ sentAfterClear' = [sentAfterClear EXCEPT ![c] = (client = "None")]
    /\ pc' = [pc EXCEPT ![c] = "await"]
    /\ UNCHANGED <<client, poisoned, guard, refs, config, op, local, request,
                   response, result, seen, afterShutdown>>

\* an export that sends again after a failure
AfterResponseRetry(res) == IF res = OkUnit THEN "return" ELSE "retry"

\* where export goes once send has come back: it returns (lines 39-55)
AfterResponse(res) == "return"

\* lines 38-55: send comes back with one of outs; the response is classified
ExportResponseFrom(c, outs) ==
    /\ pc[c] = "await"
    /\ \E out \in outs :
         /\ response' = [response EXCEPT ![c] = out]
         /\ IF AfterResponse(ClassifyResponse(out)) = "return"
            THEN Return(c, ClassifyResponse(out))
            ELSE /\ pc' = [pc EXCEPT ![c] = "send"]
                 /\ UNCHANGED <<refs, local, result>>
    /\ UNCHANGED <<client, poisoned, guard, config, op, request, nsend,
                   seen, afterShutdown, sentAfterClear>>

ExportResponse(c) == ExportResponseFrom(c, FewOutcomes)

ExportResponseAny(c) == ExportResponseFrom(c, Outcomes)

\* ------------------------------------------------------------------------
\* shutdown
\* ------------------------------------------------------------------------

\* a take that leaves the Option as it was
TakeKeeps(opt) == opt

\* a take that puts a handle back into an empty Option
TakeRestores(opt) == IF opt = "None" THEN "Some" ELSE "None"

\* Option::take: what it leaves in the Option
Take(opt) == "None"

\* a shutdown that rejects an exporter already shut down, as export does
ShutdownResultStrict(old) ==
    IF old = "None" THEN ErrOther(AlreadyShutDownText) ELSE OkUnit

\* line 61: shutdown's return value when the lock was not poisoned
ShutdownResult(old) == OkUnit

\* line 59: self.client.lock() gets the mutex
ShutdownLock(c) ==
    /\ pc[c] = "idle"
    /\ guard = 0
    /\ guard' = c
    /\ pc' = [pc EXCEPT ![c] = "scs"]
    /\ op' = [op EXCEPT ![c] = "shutdown"]
    /\ UNCHANGED <<client, poisoned, refs, config, local, request, nsend,
                   response, result, seen, afterShutdown, sentAfterClear>>

\* lines 59-61: `?` returns the poison error; otherwise take() empties the
\* Option and the taken Arc is dropped before the guard (temporaries of one
\* statement are dropped in reverse order).  Dropping the last reference
\* runs the transport's destructor under the guard: a panic there poisons
\* the mutex as the guard is dropped during unwinding.
ShutdownCs(c) ==
    /\ pc[c] = "scs"
    /\ guard = c
    /\ guard' = 0
    /\ IF LockIsErr(poisoned)
       THEN /\ seen' = [seen EXCEPT ![c] = "Poisoned"]
            /\ result' = [result EXCEPT ![c] = ErrOther(PoisonText)]
            /\ pc' = [pc EXCEPT ![c] = "done"]
            /\ UNCHANGED <<client, poisoned, refs>>
       ELSE LET left == IF client = "Some" THEN refs - 1 ELSE refs
                panics == client = "Some" /\ left = 0 /\ dropPanics
            IN  /\ seen' = [seen EXCEPT ![c] = client]
                /\ client' = Take(client)
                /\ refs' = left
                /\ poisoned' = panics
                /\ result' = [result EXCEPT ![c] =
                       IF panics THEN NoResult ELSE ShutdownResult(client)]
                /\ pc' = [pc EXCEPT ![c] = IF panics THEN "panicked" ELSE "done"]
    /\ UNCHANGED <<config, op, local, request, nsend, response, afterShutdown,
                   sentAfterClear>>

\* ------------------------------------------------------------------------

Next ==
    \E c \in CallIds :
        \/ ExportLock(c)
        \/ ExportCs(c)
        \/ ExportBuild(c)
        \/ ExportSend(c)
        \/ ExportResponse(c)
        \/ ShutdownLock(c)
        \/ ShutdownCs(c)

Spec == Init /\ [][Next]_vars

\* MaxHttpCalls calls on an exporter without custom headers, against a
\* transport that answers with any of Outcomes and whose destructor returns
InitHttp ==
    /\ Init
    /\ headers = NoHeaders
    /\ dropPanics = FALSE

NextHttp ==
    \E c \in 1 .. MaxHttpCalls :
        \/ ExportLock(c)
        \/ ExportCs(c)
        \/ ExportBuild(c)
        \/ ExportSend(c)
        \/ ExportResponseAny(c)
        \/ ShutdownLock(c)
        \/ ShutdownCs(c)

SpecHttp == InitHttp /\ [][NextHttp]_vars

\* Every call is made and keeps running: a thread that asks for the mutex
\* gets it once it stays free, and a call that can take its next step takes
\* it.  Nothing makes the transport answer: ExportResponse has no fairness.
Fairness ==
    \A c \in CallIds :
        /\ WF_vars(ExportLock(c) \/ ShutdownLock(c))
        /\ WF_vars(ExportCs(c))
        /\ WF_vars(ExportBuild(c))
        /\ WF_vars(ExportSend(c))
        /\ WF_vars(ShutdownCs(c))

\* the calls on an exporter without custom headers, fairly scheduled
InitLive ==
    /\ Init
    /\ headers = NoHeaders

SpecLive == InitLive /\ [][Next]_vars /\ Fairness

\* ------------------------------------------------------------------------
\* Properties
\* ------------------------------------------------------------------------

IsExport(c) == op[c] = "export"
IsShutdown(c) == op[c] = "shutdown"

\* sub occurs in s
Contains(sub, s) ==
    \E i \in 0 .. (Len(s) - Len(sub)) : SubSeq(s, i + 1, i + Len(sub)) = sub

\* C1: an export whose critical section starts after a shutdown call has
\* left its critical section fails with "exporter is already shut down" and
\* never calls send.
C1_ExportAfterShutdownFails ==
    \A c \in CallIds :
        (IsExport(c) /\ afterShutdown[c]) =>
            /\ nsend[c] = 0
            /\ pc[c] \in {"cs", "done"}
            /\ (pc[c] = "done" => result[c] = ErrOther(AlreadyShutDownText))

\* an export sent its request, a shutdown finished, a later export failed
C1_Witness ==
    \E c, d, e \in CallIds :
        /\ IsExport(c) /\ afterShutdown[c] /\ pc[c] = "done"
        /\ result[c] = ErrOther(AlreadyShutDownText) /\ nsend[c] = 0
        /\ IsShutdown(d) /\ pc[d] = "done" /\ result[d] = OkUnit
        /\ IsExport(e) /\ nsend[e] = 1

\* C2: the transport state starts Active and, once ShutDown, no step of any
\* export or shutdown call makes it Active again.
C2_ShutDownIsTerminal ==
    /\ client = "Some"
    /\ [][client = "None" => client' = "None"]_vars

\* ShutDown, after which an export and a second shutdown have run
C2_Witness ==
    /\ client = "None"
    /\ \E c, d \in CallIds :
        /\ IsExport(c) /\ pc[c] = "done" /\ seen[c] = "None"
        /\ IsShutdown(d) /\ pc[d] = "done" /\ seen[d] = "None"

\* C3: a shutdown call that finds the exporter already ShutDown (lock not
\* poisoned) returns Ok and leaves the state ShutDown.
C3_ShutdownIdempotent ==
    \A c \in CallIds :
        (IsShutdown(c) /\ seen[c] = "None") =>
            /\ pc[c] = "done"
            /\ result[c] = OkUnit
            /\ client = "None"

\* three shutdown calls have returned, two of them found it ShutDown
C3_Witness ==
    \E c, d, e \in CallIds :
        /\ c # d
        /\ IsShutdown(c) /\ seen[c] = "None" /\ result[c] = OkUnit
        /\ IsShutdown(d) /\ seen[d] = "None" /\ result[d] = OkUnit
        /\ IsShutdown(e) /\ seen[e] = "Some" /\ result[e] = OkUnit

\* C4: the guard is held only inside the critical sections: no export holds
\* it while it builds the request, calls send or waits for send.
C4_NoGuardAcrossIO ==
    /\ guard # 0 => pc[guard] \in {"cs", "scs"}
    /\ \A c \in CallIds : pc[c] \in {"build", "send", "await"} => guard # c

\* one export waits for send while another call holds the guard
C4_Witness ==
    \E c, d \in CallIds :
        /\ c # d
        /\ pc[c] = "await"
        /\ guard = d

\* C5: an export that captured the handle is not cancelled by shutdown: it
\* can still call send once the state is ShutDown, never reports "exporter
\* is already shut down", and what it returns is decided by what send came
\* back with.
C5_InFlightNotCancelled ==
    \A c \in CallIds :
        (IsExport(c) /\ seen[c] = "Some") =>
            /\ pc[c] = "send" => ENABLED ExportSend(c)
            /\ result[c] # ErrOther(AlreadyShutDownText)
            /\ (pc[c] = "done" /\ nsend[c] = 1) =>
                 /\ (response[c].ok /\ response[c].status \in 200 .. 299)
                        => result[c] = OkUnit
                 /\ (response[c].ok /\ response[c].status \notin 200 .. 299)
                        => result[c].variant = "ExportErr"
                 /\ ~response[c].ok
                        => result[c] = ErrExport(response[c].err)

\* an export called send after the shutdown had emptied self.client, and
\* returned Ok
C5_Witness ==
    \E c, d \in CallIds :
        /\ IsExport(c) /\ sentAfterClear[c] /\ pc[c] = "done"
        /\ result[c] = OkUnit
        /\ IsShutdown(d) /\ pc[d] = "done" /\ seen[d] = "Some"

\* the bodies of Bodies that are UTF-8, with their text
Utf8Bodies ==
    (<<68, 101, 116, 97, 105, 108, 115>> :> <<68, 101, 116, 97, 105, 108, 115>>)
    @@ (<<195, 169>> :> <<233>>)

\* the status codes of Statuses in decimal
Numerals ==
    (199 :> <<49, 57, 57>>)
    @@ (200 :> <<50, 48, 48>>) @@ (299 :> <<50, 57, 57>>)
    @@ (300 :> <<51, 48, 48>>) @@ (400 :> <<52, 48, 48>>)
    @@ (500 :> <<53, 48, 48>>)

\* send came back with a response whose status is outside 200..299
Rejected(c) ==
    /\ IsExport(c) /\ pc[c] = "done" /\ nsend[c] = 1
    /\ response[c].ok
    /\ response[c].status \notin 200 .. 299

\* C6: an export returns Ok exactly when it captured the handle, the body
\* was encoded, send came back with a response and the status is in
\* 200..299, whatever the response body; any other status is a failure.
C6_SuccessIffStatus2xx ==
    \A c \in CallIds :
        (IsExport(c) /\ pc[c] = "done") =>
            /\ result[c] = OkUnit <=>
                 /\ seen[c] = "Some"
                 /\ request[c] # NoRequest
                 /\ nsend[c] = 1
                 /\ response[c].ok
                 /\ response[c].status \in 200 .. 299
            /\ result[c] # OkUnit => result[c].variant \in {"Other", "ExportErr"}

\* an export returned Ok on status 299 with a body that is not UTF-8
C6_Witness ==
    \E c \in CallIds :
        /\ IsExport(c) /\ pc[c] = "done" /\ result[c] = OkUnit
        /\ response[c] = SendOk(299, <<255>>)

\* C7: on a status outside 200..299 with a UTF-8 body the error text
\* contains the status code in decimal and the text of the body.
C7_ErrorHasStatusAndBody ==
    \A c \in CallIds :
        (Rejected(c) /\ response[c].body \in DOMAIN Utf8Bodies) =>
            /\ result[c].variant = "ExportErr"
            /\ Contains(Numerals[response[c].status], result[c].msg)
            /\ Contains(Utf8Bodies[response[c].body], result[c].msg)

\* status 400 with body "Details"
C7_Witness ==
    \E c \in CallIds :
        /\ Rejected(c)
        /\ response[c] = SendOk(400, <<68, 101, 116, 97, 105, 108, 115>>)
        /\ Contains(<<52, 48, 48>>, result[c].msg)
        /\ Contains(<<68, 101, 116, 97, 105, 108, 115>>, result[c].msg)

\* C8: on a status outside 200..299 with a body that is not UTF-8 the error
\* is the same server-rejected error, with the status code and with
\* "response body cannot be decoded" in the place of the body.
C8_UndecodableBodyPlaceholder ==
    \A c \in CallIds :
        (Rejected(c) /\ response[c].body \notin DOMAIN Utf8Bodies) =>
            /\ result[c].variant = "ExportErr"
            /\ result[c].inner = "RequestFailed"
            /\ Contains(StatusPrefixText \o Numerals[response[c].status],
                        result[c].msg)
            /\ \E n \in 1 .. Len(result[c].msg) :
                 SubSeq(result[c].msg, n, Len(result[c].msg))
                     = BodyPrefixText \o UndecodableText \o BodySuffixText

\* status 500 with an encoded surrogate as body
C8_Witness ==
    \E c \in CallIds :
        /\ Rejected(c)
        /\ response[c] = SendOk(500, <<237, 160, 128>>)
        /\ Contains(UndecodableText, result[c].msg)

\* C9: an export calls send at most once; after a transport error or a
\* status outside 200..299 it returns that failure, having sent once.
C9_SingleAttempt ==
    \A c \in CallIds :
        /\ nsend[c] <= 1
        /\ (IsExport(c) /\ response[c] # NoResponse
            /\ ~(response[c].ok /\ response[c].status \in 200 .. 299)) =>
              /\ pc[c] \in {"done", "panicked"}
              /\ nsend[c] = 1
              /\ pc[c] = "done" => result[c].variant = "ExportErr"

\* one export returned a transport error, another a rejection
C9_Witness ==
    \E c, d \in CallIds :
        /\ IsExport(c) /\ pc[c] = "done" /\ nsend[c] = 1
        /\ ~response[c].ok /\ result[c] = ErrExport(response[c].err)
        /\ IsExport(d) /\ pc[d] = "done" /\ nsend[d] = 1
        /\ response[d].ok /\ response[d].status = 400

\* C10: every request sent is a POST to the collector endpoint, has a
\* content-type header, and has every custom header with its configured
\* value; the content-type is the payload's unless a custom header of that
\* name replaces it.
C10_RequestShape ==
    \A c \in CallIds :
        nsend[c] >= 1 =>
            LET r == request[c]
            IN  /\ r.method = "POST"
                /\ r.uri = collector_endpoint
                /\ "content-type" \in DOMAIN r.headers
                /\ \A k \in DOMAIN headers : k \in DOMAIN r.headers
                                             /\ r.headers[k] = headers[k]
                /\ "content-type" \notin DOMAIN headers
                       => r.headers["content-type"] = "application/x-protobuf"
                /\ DOMAIN r.headers = {"content-type"} \cup DOMAIN headers

\* two exports sent, with X-Test and a Content-Type among the custom headers
C10_Witness ==
    \E c, d \in CallIds :
        /\ c # d
        /\ nsend[c] = 1 /\ nsend[d] = 1
        /\ headers = ("x-test" :> "abc") @@ ("content-type" :> "application/json")
        /\ request[c].headers["x-test"] = "abc"
        /\ request[d].headers["content-type"] = "application/json"

\* the call has come back to its caller
Finished(c) == pc[c] \in {"done", "panicked"}

\* C11: without a wire format no export succeeds and no request is built or
\* sent, whatever the batch; an export that got as far as build_body returns
\* the "No http protocol configured" error.
C11_NoFormatFails ==
    ~httpProto =>
        \A c \in CallIds :
            /\ nsend[c] = 0
            /\ request[c] = NoRequest
            /\ pc[c] \notin {"send", "await"}
            /\ IsExport(c) => result[c] # OkUnit
            /\ (IsExport(c) /\ pc[c] = "done" /\ seen[c] = "Some")
                   => result[c] = ErrOther(NoProtocolText)

\* two exports ran build_body without a format
C11_Witness ==
    /\ ~httpProto
    /\ \E c, d \in CallIds :
        /\ c # d
        /\ IsExport(c) /\ pc[c] = "done" /\ seen[c] = "Some"
        /\ result[c] = ErrOther(NoProtocolText)
        /\ IsExport(d) /\ pc[d] = "done" /\ seen[d] = "Some"
        /\ result[d] = ErrOther(NoProtocolText)

\* C12: a shutdown that returns an error found the lock poisoned; a
\* shutdown that found the lock not poisoned, Active or ShutDown, with or
\* without exports in flight, leaves the state ShutDown and returns Ok.
C12_ShutdownErrOnlyIfPoisoned ==
    \A c \in CallIds :
        (IsShutdown(c) /\ Finished(c)) =>
            /\ (pc[c] = "done" /\ result[c] # OkUnit) =>
                 /\ seen[c] = "Poisoned"
                 /\ result[c] = ErrOther(PoisonText)
            /\ seen[c] \in {"Some", "None"} =>
                 /\ client = "None"
                 /\ pc[c] = "done" => result[c] = OkUnit

\* a shutdown returned Ok while an export waits for send
C12_Witness ==
    \E c, d \in CallIds :
        /\ IsShutdown(c) /\ pc[c] = "done" /\ seen[c] = "Some"
        /\ result[c] = OkUnit /\ client = "None"
        /\ IsExport(d) /\ pc[d] = "await"

\* what a step of call c may do once the lock is poisoned
PoisonedStep(c) ==
    CASE pc[c] = "idle" -> pc'[c] \in {"cs", "scs"}
      [] pc[c] \in {"cs", "scs"} ->
            /\ pc'[c] = "done"
            /\ result'[c] = ErrOther(PoisonText)
            /\ result'[c] # ErrOther(AlreadyShutDownText)
            /\ nsend'[c] = 0
            /\ guard' = 0
      [] OTHER -> FALSE

\* C13: once the lock is poisoned every export and every shutdown gets the
\* lock at once, returns the poison error (not "exporter is already shut
\* down"), sends nothing, releases the lock, and leaves self.client, the
\* strong count and the poison flag as they were.
C13_PoisonSurfaces ==
    /\ [](poisoned =>
            \A c \in CallIds :
                /\ (pc[c] = "idle" /\ guard = 0)
                       => (ENABLED ExportLock(c) /\ ENABLED ShutdownLock(c))
                /\ pc[c] = "cs" => ENABLED ExportCs(c)
                /\ pc[c] = "scs" => ENABLED ShutdownCs(c))
    /\ [][poisoned =>
            /\ poisoned'
            /\ client' = client
            /\ refs' = refs
            /\ \A c \in CallIds : pc'[c] # pc[c] => PoisonedStep(c)]_vars

\* an export and a shutdown returned the poison error
C13_Witness ==
    /\ poisoned
    /\ \E c, d \in CallIds :
        /\ IsExport(c) /\ pc[c] = "done" /\ seen[c] = "Poisoned"
        /\ result[c] = ErrOther(PoisonText)
        /\ IsShutdown(d) /\ pc[d] = "done" /\ seen[d] = "Poisoned"
        /\ result[d] = ErrOther(PoisonText)

\* the order of the steps of export
ExportOrder ==
    {<<"idle", "cs">>, <<"cs", "build">>, <<"cs", "done">>,
     <<"build", "send">>, <<"build", "done">>, <<"build", "panicked">>,
     <<"send", "await">>, <<"await", "done">>, <<"await", "panicked">>}

\* C14: export's steps run in the order lock, shut-down check, encoding and
\* request, send, status, and the first step that fails decides the result:
\* a poisoned lock before the shut-down check, "already shut down" before
\* the encoder (also when encoding would fail), an encoding failure before
\* send.
C14_FirstFailureDecides ==
    /\ [](\A c \in CallIds :
            (IsExport(c) /\ pc[c] = "done") =>
                /\ seen[c] = "Poisoned" =>
                     /\ result[c] = ErrOther(PoisonText)
                     /\ request[c] = NoRequest /\ nsend[c] = 0
                /\ seen[c] = "None" =>
                     /\ result[c] = ErrOther(AlreadyShutDownText)
                     /\ request[c] = NoRequest /\ nsend[c] = 0
                /\ (seen[c] = "Some" /\ ~httpProto) =>
                     /\ result[c] = ErrOther(NoProtocolText)
                     /\ nsend[c] = 0 /\ response[c] = NoResponse
                /\ (seen[c] = "Some" /\ httpProto) =>
                     /\ request[c] # NoRequest
                     /\ nsend[c] = 1 /\ response[c] # NoResponse)
    /\ [][\A c \in CallIds :
            (pc'[c] # pc[c] /\ op'[c] = "export") =>
                /\ <<pc[c], pc'[c]>> \in ExportOrder
                /\ pc'[c] = "build" => (~poisoned /\ client = "Some")
                /\ (pc[c] = "cs" /\ poisoned)
                       => result'[c] = ErrOther(PoisonText)
                /\ (pc[c] = "cs" /\ ~poisoned /\ client = "None")
                       => result'[c] = ErrOther(AlreadyShutDownText)
                /\ request'[c] # request[c] => pc[c] = "build"
                /\ nsend'[c] # nsend[c] => pc[c] = "send"]_vars

\* without a format, an export on a ShutDown exporter reported "already shut
\* down" and an export on the Active exporter the encoding error
C14_Witness ==
    /\ ~httpProto
    /\ \E c, d \in CallIds :
        /\ IsExport(c) /\ pc[c] = "done" /\ seen[c] = "None"
        /\ result[c] = ErrOther(AlreadyShutDownText)
        /\ IsExport(d) /\ pc[d] = "done" /\ seen[d] = "Some"
        /\ result[d] = ErrOther(NoProtocolText)

\* every call has returned, or is an export waiting for send
OnlySendsPending ==
    \A c \in CallIds :
        /\ op[c] # ""
        /\ IsShutdown(c) => Finished(c)
        /\ IsExport(c) => (Finished(c) \/ pc[c] = "await")

\* C15: with fair scheduling of the lock and of the calls, and no assumption
\* on the transport, the lock is always released again, every shutdown
\* returns and every export returns or is left waiting for send only; if
\* every send comes back, every call returns; and no state with an
\* unfinished call is without a next step.
C15_ShutdownNeverWaitsForSend ==
    /\ []((\E c \in CallIds : ~Finished(c)) => ENABLED Next)
    /\ (guard # 0) ~> (guard = 0)
    /\ <>[]OnlySendsPending
    /\ (\A c \in CallIds : []<>(pc[c] # "await"))
           => <>(\A c \in CallIds : Finished(c))

\* two shutdowns have returned while an export waits for a send that has
\* not come back
C15_Witness ==
    /\ OnlySendsPending
    /\ \E c, d, e \in CallIds :
        /\ c # d
        /\ IsShutdown(c) /\ pc[c] = "done" /\ result[c] = OkUnit
        /\ IsShutdown(d) /\ pc[d] = "done" /\ result[d] = OkUnit
        /\ IsExport(e) /\ pc[e] = "await" /\ sentAfterClear[e]

\* the status codes of FewOutcomes in decimal
FewNumerals == (200 :> <<50, 48, 48>>) @@ (400 :> <<52, 48, 48>>)

\* what an export that captured the handle returns, from its own inputs
OwnOutcome(c) ==
    IF ~httpProto THEN result[c] = ErrOther(NoProtocolText)
    ELSE IF ~response[c].ok THEN result[c] = ErrExport(response[c].err)
    ELSE IF response[c].status \in 200 .. 299 THEN result[c] = OkUnit
    ELSE /\ result[c].variant = "ExportErr"
         /\ Contains(FewNumerals[response[c].status], result[c].msg)
         /\ Contains(response[c].body, result[c].msg)

\* C16: exports that hold a clone run side by side: the send of each may
\* come back while the others are still pending, none holds the lock, and
\* what an export returns is decided by its own encoding and its own
\* response, so two exports with the same response return the same.
C16_ExportsIndependent ==
    \A c \in CallIds :
        (IsExport(c) /\ seen[c] = "Some") =>
            /\ pc[c] = "await" => (ENABLED ExportResponse(c) /\ guard # c)
            /\ pc[c] = "done" => OwnOutcome(c)
            /\ \A d \in CallIds :
                 (IsExport(d) /\ seen[d] = "Some" /\ pc[c] = "done"
                  /\ pc[d] = "done" /\ response[c] = response[d])
                     => result[c] = result[d]

\* two exports wait for their sends at once, each with its clone, after a
\* third returned a failure
C16_Witness ==
    \E c, d, e \in CallIds :
        /\ c # d
        /\ pc[c] = "await" /\ local[c]
        /\ pc[d] = "await" /\ local[d]
        /\ refs >= 2
        /\ IsExport(e) /\ pc[e] = "done" /\ result[e].variant = "ExportErr"

\* no shutdown has been through its critical section
NoShutdownYet ==
    \A e \in CallIds : IsShutdown(e) => seen[e] = "-"

\* C17: only a shutdown's critical section changes self.client; no step of
\* an export does, however it ends.  So as long as no shutdown has run the
\* exporter stays Active and unpoisoned, and an export in its critical
\* section captures the handle, whatever earlier exports returned.
C17_ExportLeavesStateAlone ==
    /\ [](NoShutdownYet =>
            /\ client = "Some" /\ ~poisoned
            /\ \A d \in CallIds :
                 /\ pc[d] = "cs" => ENABLED ExportCs(d)
                 /\ pc[d] = "send" => ENABLED ExportSend(d))
    /\ [][/\ client' # client =>
               \E c \in CallIds : pc[c] = "scs" /\ Finished(c)'
          /\ \A d \in CallIds :
               (NoShutdownYet /\ pc[d] = "cs" /\ pc'[d] # "cs")
                   => (pc'[d] = "build" /\ local'[d])]_vars

\* after an export failed with a transport error and another with a
\* rejection, a third is in its critical section on the Active exporter
C17_Witness ==
    /\ NoShutdownYet
    /\ client = "Some"
    /\ \E c, d, e \in CallIds :
        /\ IsExport(c) /\ pc[c] = "done" /\ ~response[c].ok
        /\ result[c].variant = "ExportErr"
        /\ IsExport(d) /\ pc[d] = "done" /\ response[d].ok
        /\ result[d].variant = "ExportErr"
        /\ pc[e] = "cs"

\* the exports that hold a clone
Holders == {c \in CallIds : local[c]}

\* C18: the strong count is one for self.client while it is Some plus one
\* for every export that has captured the handle and not returned; an
\* export sends or waits only while it holds a clone, and once self.client
\* is None and the holders have returned no reference is left.
C18_ReferenceCount ==
    /\ refs = (IF client = "Some" THEN 1 ELSE 0) + Cardinality(Holders)
    /\ \A c \in CallIds :
        /\ local[c] <=> (IsExport(c) /\ pc[c] \in {"build", "send", "await"})
        /\ pc[c] \in {"send", "await"} => refs >= 1
    /\ (client = "None" /\ Holders = {}) => refs = 0

\* an export that sent after the shutdown has returned, and no reference
\* is left
C18_Witness ==
    /\ refs = 0
    /\ client = "None"
    /\ \E c \in CallIds :
        /\ IsExport(c) /\ sentAfterClear[c] /\ Finished(c)

====
